---- MODULE Spec2Model ----
(***************************************************************************)
(* Model of packages/mocha-runner/src/mocha-runner.ts: the MochaRunner     *)
(* class (discovery walk, locator filter, multi-pass execution             *)
(* coordinator).  Strings are TLA+ strings, so that the hashed strings and *)
(* the locator serialisations are computed the way the code computes them. *)
(***************************************************************************)
EXTENDS Integers, Sequences, FiniteSets, TLC

VARIABLES
    title,                  \* the suite tree of the user's test files: node -> title
    blocklist,              \* the locators Util.isBlocklistedLocator answers true for
    locatorFile,            \* argv.locatorFile is set
    groups,                 \* Util.createLocatorSet(locators): the locator groups
    pc,                     \* position of executeTests / discoverTests
    gi,                     \* index of the current group (for .. of locatorSet)
    i,                      \* loop counter i of the inner for loop
    testlocator,            \* this._testlocator
    blocklistedTests,       \* this._blocklistedTests
    blockListedLocators,    \* this._blockListedLocators
    blocklistedSuites,      \* this._blocklistedSuites
    hooks,                  \* number of wrappers stacked on Mocha.Runner.prototype.run
    passes,                 \* one record per call of execute() that entered the runner
    executionResults,       \* ExecutionResults pushed by executeTests
    published,              \* what was handed to Util.makeApiRequestPost
    postEndpoint,           \* the endpoint the command posts to ("" when there is none)
    tests,                  \* discovery output: Test[]
    testSuites,             \* discovery output: TestSuite[]
    command,                \* argv.command
    envValid,               \* the arguments and environment pass Validations.validate*Env
    instances,              \* number of Mocha instances createMochaInstance has built
    required,               \* the files of mocha.options.require loaded so far
    error,                  \* the exception thrown out of the command, if any
    stdout,                 \* the lines written by console.log
    exitCode                \* the arguments of process.exit

vars == <<title, blocklist, locatorFile, groups, pc, gi, i, testlocator,
          blocklistedTests, blockListedLocators, blocklistedSuites, hooks,
          passes, executionResults, published, postEndpoint, tests, testSuites,
          command, envValid, instances, required, error, stdout, exitCode>>

(***************************************************************************)
(* Bounds of the model.                                                    *)
(***************************************************************************)
\* total number of passes a locator configuration may ask for
MaxPasses == 3
\* number of failing tests the engine may report in one invocation
MaxFailures == 1

(***************************************************************************)
(* The suite tree mocha builds from the test files.  The shape is fixed    *)
(* (a root-level test, a suite with a nested suite, a sibling suite); the  *)
(* titles vary.                                                            *)
(***************************************************************************)
Root == "root"
SuiteNodes == {"S1", "S2", "S3"}
TestNodes == {"t0", "t1", "t2", "t3"}
Nodes == SuiteNodes \cup TestNodes

\* Mocha.Suite.suites
ChildSuites(s) ==
    CASE s = Root -> <<"S1", "S3">>
      [] s = "S1" -> <<"S2">>
      [] OTHER -> <<>>

\* Mocha.Suite.tests, as loaded from the files
LoadedTests(s) ==
    CASE s = Root -> <<"t0">>
      [] s = "S1" -> <<"t1">>
      [] s = "S2" -> <<"t2">>
      [] s = "S3" -> <<"t3">>
      [] OTHER -> <<>>

\* Mocha's parent pointer
Parent(n) ==
    CASE n \in {"S1", "S3", "t0"} -> Root
      [] n \in {"S2", "t1"} -> "S1"
      [] n = "t2" -> "S2"
      [] n = "t3" -> "S3"
      [] OTHER -> Root

\* test.file / childSuite.file
FileOf(n) == "f.js"

\* process.env.REPO_ID
repoID == "repo"

Range(s) == {s[k] : k \in 1..Len(s)}

RECURSIVE Join(_, _)
\* Array.prototype.join
Join(s, sep) ==
    IF Len(s) = 0 THEN ""
    ELSE IF Len(s) = 1 THEN s[1]
    ELSE s[1] \o sep \o Join(Tail(s), sep)

RECURSIVE Reverse(_)
\* Array.prototype.reverse
Reverse(s) == IF Len(s) = 0 THEN <<>> ELSE Append(Reverse(Tail(s)), s[1])

RECURSIVE getParentSuites(_, _)
\* MochaHelper.getParentSuites: titles of the enclosing suites, innermost first
getParentSuites(ttl, n) ==
    IF Parent(n) = Root THEN <<>>
    ELSE <<ttl[Parent(n)]>> \o getParentSuites(ttl, Parent(n))

\* Util.getLocator(filename, parentSuites, title).toString()
getLocator(filename, parentSuites, name) ==
    Join(<<filename>> \o parentSuites \o <<name>>, "##")

\* the locator filterSpecs computes for a test or a suite
LocatorOf(ttl, n) == getLocator(FileOf(n), Reverse(getParentSuites(ttl, n)), ttl[n])

\* the locator of every node of the tree
Locators(ttl) == [n \in Nodes |-> LocatorOf(ttl, n)]

\* Util.isBlocklistedLocator
isBlocklistedLocator(bl, locator) == locator \in bl

RECURSIVE Descendants(_)
\* the tests below a suite, at any depth
Descendants(s) ==
    Range(LoadedTests(s)) \cup
    UNION {Descendants(ChildSuites(s)[k]) : k \in 1..Len(ChildSuites(s))}

(***************************************************************************)
(* The Locator Filter: filterSpecs, installed on Mocha.Runner.prototype.run *)
(* by extendNativeRunner.  st is the state the filter reads and writes:     *)
(*   live : suite -> suite.tests of the mocha instance being run            *)
(*   bt, bl, bs : this._blocklistedTests, this._blockListedLocators,        *)
(*                this._blocklistedSuites                                   *)
(* and loc gives each node of the tree the locator Util.getLocator builds   *)
(* from its file, the titles of its parent suites and its title.            *)
(***************************************************************************)
\* MochaHelper.transformMochaTestAsTestResult(test, new Date(), status)
transformMochaTestAsTestResult(loc, test, status) ==
    [test |-> test, locator |-> loc[test], status |-> status]

\* MochaHelper.transformMochaSuiteAsSuiteResult(childSuite, new Date(), status)
transformMochaSuiteAsSuiteResult(loc, suite, status) ==
    [suite |-> suite, locator |-> loc[suite], status |-> status]

\* mutant: a blocklisted test is recorded and also left in the suite
filterTest_KeepsBlocklisted(loc, bset, tl, acc, test) ==
    LET locator == loc[test]
        blockListed == isBlocklistedLocator(bset, locator)
        testResult == transformMochaTestAsTestResult(loc, test, "BlockListed")
        recorded == [acc EXCEPT !.bl = @ \cup {testResult.locator},
                                !.bt = Append(@, testResult),
                                !.filteredTests = Append(@, test)]
        kept == [acc EXCEPT !.filteredTests = Append(@, test)]
    IN  IF Cardinality(tl) > 0
        THEN IF locator \in tl
             THEN IF ~blockListed THEN kept ELSE recorded
             ELSE acc
        ELSE IF blockListed THEN recorded ELSE kept

\* mutant: the blocklist is looked at before the selection
filterTest_BlocklistFirst(loc, bset, tl, acc, test) ==
    LET locator == loc[test]
        blockListed == isBlocklistedLocator(bset, locator)
        testResult == transformMochaTestAsTestResult(loc, test, "BlockListed")
        recorded == [acc EXCEPT !.bl = @ \cup {testResult.locator},
                                !.bt = Append(@, testResult)]
        kept == [acc EXCEPT !.filteredTests = Append(@, test)]
    IN  IF blockListed THEN recorded
        ELSE IF Cardinality(tl) > 0 /\ locator \notin tl THEN acc
        ELSE kept

\* mutant: the size test reads >= 0, so an empty selection selects nothing
filterTest_EmptySelectsNothing(loc, bset, tl, acc, test) ==
    LET locator == loc[test]
        blockListed == isBlocklistedLocator(bset, locator)
        testResult == transformMochaTestAsTestResult(loc, test, "BlockListed")
        recorded == [acc EXCEPT !.bl = @ \cup {testResult.locator},
                                !.bt = Append(@, testResult)]
        kept == [acc EXCEPT !.filteredTests = Append(@, test)]
    IN  IF Cardinality(tl) >= 0
        THEN IF locator \in tl
             THEN IF ~blockListed THEN kept ELSE recorded
             ELSE acc
        ELSE IF blockListed THEN recorded ELSE kept

\* mutant: the selection is not consulted
filterTest_IgnoresSelection(loc, bset, tl, acc, test) ==
    LET locator == loc[test]
        blockListed == isBlocklistedLocator(bset, locator)
        testResult == transformMochaTestAsTestResult(loc, test, "BlockListed")
        recorded == [acc EXCEPT !.bl = @ \cup {testResult.locator},
                                !.bt = Append(@, testResult)]
        kept == [acc EXCEPT !.filteredTests = Append(@, test)]
    IN  IF blockListed THEN (IF Cardinality(tl) > 0 /\ locator \notin tl THEN acc ELSE recorded)
        ELSE kept

\* the body of the loop over suite.tests; acc holds filteredTests, bt and bl
filterTest(loc, bset, tl, acc, test) ==
    LET locator == loc[test]
        blockListed == isBlocklistedLocator(bset, locator)
        testResult == transformMochaTestAsTestResult(loc, test, "BlockListed")
        recorded == [acc EXCEPT !.bl = @ \cup {testResult.locator},
                                !.bt = Append(@, testResult)]
        kept == [acc EXCEPT !.filteredTests = Append(@, test)]
    IN  IF Cardinality(tl) > 0
        THEN IF locator \in tl
             THEN IF ~blockListed THEN kept ELSE recorded
             ELSE acc
        ELSE IF blockListed THEN recorded ELSE kept

RECURSIVE filterTests(_, _, _, _, _)
\* for (const test of suite.tests)
filterTests(loc, bset, tl, acc, ts) ==
    IF Len(ts) = 0 THEN acc
    ELSE filterTests(loc, bset, tl, filterTest(loc, bset, tl, acc, Head(ts)), Tail(ts))

\* the blocklisted child suite is recorded (and, in the code, still recursed into)
filterChildSuite(loc, bset, st, childSuite) ==
    IF isBlocklistedLocator(bset, loc[childSuite])
    THEN [st EXCEPT !.bs = Append(@, transformMochaSuiteAsSuiteResult(loc, childSuite, "BlockListed"))]
    ELSE st

RECURSIVE filterSpecs(_, _, _, _, _)
RECURSIVE filterChildSuites(_, _, _, _, _)
\* for (const childSuite of suite.suites)
filterChildSuites(loc, bset, tl, st, cs) ==
    IF Len(cs) = 0 THEN st
    ELSE filterChildSuites(loc, bset, tl,
            filterSpecs(loc, bset, tl, filterChildSuite(loc, bset, st, Head(cs)), Head(cs)),
            Tail(cs))

\* MochaRunner.filterSpecs(suite)
filterSpecs(loc, bset, tl, st, suite) ==
    LET acc == filterTests(loc, bset, tl,
                   [filteredTests |-> <<>>, bt |-> st.bt, bl |-> st.bl],
                   st.live[suite])
        st1 == [st EXCEPT !.live[suite] = acc.filteredTests,
                          !.bt = acc.bt, !.bl = acc.bl]
    IN  filterChildSuites(loc, bset, tl, st1, ChildSuites(suite))

\* extendNativeRunner wraps whatever Mocha.Runner.prototype.run currently is
extendNativeRunner(h) == h + 1

RECURSIVE patchedRun(_, _, _, _, _)
\* Mocha.Runner.prototype.run after h calls of extendNativeRunner: each wrapper
\* filters this.suite and calls the run it wrapped; the innermost is mocha's own
patchedRun(h, loc, bset, tl, st) ==
    IF h = 0 THEN st
    ELSE patchedRun(h - 1, loc, bset, tl, filterSpecs(loc, bset, tl, st, Root))

(***************************************************************************)
(* The engine (mocha and ./mocha-reporter) and the result helpers of the   *)
(* core package.                                                           *)
(***************************************************************************)
RECURSIVE RunOrder(_, _)
RECURSIVE RunOrderChildren(_, _)
\* the order mocha runs the tests left in the tree: a suite's tests, then its suites
RunOrderChildren(live, cs) ==
    IF Len(cs) = 0 THEN <<>>
    ELSE RunOrder(live, Head(cs)) \o RunOrderChildren(live, Tail(cs))

\* Mocha.Runner.runSuite
RunOrder(live, s) == live[s] \o RunOrderChildren(live, ChildSuites(s))

\* runnerWithResults.testResults: one result per test the engine ran
reporterTestResults(loc, live, failed) ==
    LET order == RunOrder(live, Root)
    IN  [k \in 1..Len(order) |->
            transformMochaTestAsTestResult(loc, order[k],
                IF order[k] \in failed THEN "Failed" ELSE "Passed")]

RECURSIVE SuitesRun(_, _)
\* the suites mocha enters: those with a test left below them
SuitesRun(live, cs) ==
    IF Len(cs) = 0 THEN <<>>
    ELSE (IF Len(RunOrder(live, Head(cs))) > 0 THEN <<Head(cs)>> ELSE <<>>)
         \o SuitesRun(live, ChildSuites(Head(cs))) \o SuitesRun(live, Tail(cs))

\* runnerWithResults.testSuiteResults
reporterSuiteResults(loc, live, failed) ==
    LET ran == SuitesRun(live, ChildSuites(Root))
    IN  [k \in 1..Len(ran) |->
            transformMochaSuiteAsSuiteResult(loc, ran[k],
                IF Descendants(ran[k]) \cap failed /= {} THEN "Failed" ELSE "Passed")]

RECURSIVE handleDuplicateTests(_)
\* Util.handleDuplicateTests: of the results that share a key the last is kept
handleDuplicateTests(rs) ==
    IF Len(rs) = 0 THEN <<>>
    ELSE IF \E k \in 2..Len(rs) : rs[k].locator = rs[1].locator
         THEN handleDuplicateTests(Tail(rs))
         ELSE <<rs[1]>> \o handleDuplicateTests(Tail(rs))

RECURSIVE filterTestResultsByTestLocator(_, _, _)
\* Util.filterTestResultsByTestLocator: the results of the selected locators,
\* those of a blocklisted locator with status BlockListed
filterTestResultsByTestLocator(rs, tl, bl) ==
    IF Len(rs) = 0 THEN <<>>
    ELSE (IF rs[1].locator \in tl
          THEN <<IF rs[1].locator \in bl
                 THEN [rs[1] EXCEPT !.status = "BlockListed"] ELSE rs[1]>>
          ELSE <<>>)
         \o filterTestResultsByTestLocator(Tail(rs), tl, bl)

(***************************************************************************)
(* Inputs: the titles of the tree, the blocklist and the locator           *)
(* configuration.                                                          *)
(***************************************************************************)
BaseTitle ==
    [n \in Nodes |->
        CASE n = "S1" -> "A" [] n = "S2" -> "B" [] n = "S3" -> "C"
          [] n = "t0" -> "x" [] n = "t1" -> "y" [] n = "t2" -> "z"
          [] OTHER -> "y"]

\* the tree of the execute command
ExecTitles == {BaseTitle}

\* blocklists: nothing, or the locator of one test or suite of the first file-level
\* suite and the root
BlockLists(ttl) ==
    {{}} \cup {{LocatorOf(ttl, n)} : n \in {"t0", "t1", "t2", "S1", "S2"}}

\* the locators of a group: none, the root-level test, or the two tests below S1
Selections(ttl) ==
    {{}, {LocatorOf(ttl, "t0")}, {LocatorOf(ttl, "t1"), LocatorOf(ttl, "t2")}}

RECURSIVE GroupSeqs(_, _)
\* the locator sets Util.createLocatorSet returns that ask for at most n passes
GroupSeqs(ttl, n) ==
    {<<>>} \cup
    UNION {{<<[locators |-> sel, numberofexecutions |-> r]>> \o rest :
                rest \in GroupSeqs(ttl, n - r)} :
           sel \in Selections(ttl), r \in 1..n}

NoResult == [testResults |-> <<>>, testSuiteResults |-> <<>>]

\* no exception has been thrown
NoError == "none"

\* the values of argv.command: missing, the two commands, anything else
Commands == {"", "discover", "execute", "report"}

\* the files the mocha configuration of the repository under test names in require
mochaRequire == <<"setup.js">>

\* Validations.validateDiscoveryEnv / validateExecutionEnv: the exception thrown for
\* a missing or invalid argument or environment value, if any
validateEnv(valid) == IF valid THEN NoError ELSE "ValidationError"

\* the state of a fresh process: nothing built, loaded, thrown, printed or exited
FreshProcess ==
    /\ instances = 0
    /\ required = <<>>
    /\ error = NoError
    /\ stdout = <<>>
    /\ exitCode = <<>>

Init ==
    /\ title \in ExecTitles
    /\ command \in Commands
    /\ envValid \in BOOLEAN
    /\ locatorFile \in IF command = "execute" THEN BOOLEAN ELSE {FALSE}
    /\ groups \in IF locatorFile THEN GroupSeqs(title, MaxPasses) ELSE {<<>>}
    /\ blocklist \in IF command = "execute" THEN BlockLists(title) ELSE {{}}
    /\ FreshProcess
    /\ pc = "main"
    /\ gi = 1
    /\ i = 1
    /\ testlocator = {}
    /\ blocklistedTests = <<>>
    /\ blockListedLocators = {}
    /\ blocklistedSuites = <<>>
    /\ hooks = 0
    /\ passes = <<>>
    /\ executionResults = <<>>
    /\ published = <<>>
    /\ postEndpoint = ""
    /\ tests = <<>>
    /\ testSuites = <<>>

inputs == <<title, blocklist, locatorFile, groups, command, envValid>>
discovered == <<tests, testSuites>>
accumulators == <<blocklistedTests, blockListedLocators, blocklistedSuites>>
engines == <<instances, required>>
posted == <<published, postEndpoint>>
process == <<error, stdout, exitCode>>

(***************************************************************************)
(* createMochaInstance(): the engine instance of a pass or of a discovery. *)
(***************************************************************************)
\* new Mocha(...), then require(file) for every file of mocha.options.require
createMochaInstance(e) ==
    [instances |-> e.instances + 1, required |-> e.required \o mochaRequire]

(***************************************************************************)
(* execute(testFilesGlob, locators): one pass.                              *)
(***************************************************************************)
\* execute up to the await: a new mocha instance with the files loaded, the
\* selection installed, the runner patched once more and mocha.run called, which
\* calls the patched Runner.prototype.run before any test runs
execute(locators) ==
    LET h == extendNativeRunner(hooks)
        tl == locators
        st0 == [live |-> [s \in SuiteNodes \cup {Root} |-> LoadedTests(s)],
                bt |-> blocklistedTests, bl |-> blockListedLocators,
                bs |-> blocklistedSuites]
        st1 == patchedRun(h, Locators(title), blocklist, tl, st0)
        mocha == createMochaInstance([instances |-> instances, required |-> required])
    IN  /\ instances' = mocha.instances
        /\ required' = mocha.required
        /\ testlocator' = tl
        /\ hooks' = h
        /\ blocklistedTests' = st1.bt
        /\ blockListedLocators' = st1.bl
        /\ blocklistedSuites' = st1.bs
        /\ passes' = Append(passes,
              [locators |-> locators, state |-> "running", live |-> st1.live,
               filterRuns |-> h,
               recTests |-> SubSeq(st1.bt, Len(blocklistedTests) + 1, Len(st1.bt)),
               recSuites |-> SubSeq(st1.bs, Len(blocklistedSuites) + 1, Len(st1.bs)),
               testResults |-> <<>>, testSuiteResults |-> <<>>,
               ret |-> NoResult])

\* mutant: the failure of the engine is swallowed and executeTests goes on to the
\* report without the pass
executeThrows_SkipAndContinue(locators) ==
    LET mocha == createMochaInstance([instances |-> instances, required |-> required])
    IN  /\ instances' = mocha.instances
        /\ required' = mocha.required
        /\ testlocator' = locators
        /\ hooks' = extendNativeRunner(hooks)
        /\ pc' = "publish"
        /\ UNCHANGED <<inputs, gi, i, accumulators, passes, executionResults,
                       posted, discovered, process>>

\* execute when mocha.run throws: the instance is built, the selection installed and
\* the runner patched, but loading the files inside mocha.run fails before the
\* runner is entered, so that execute rejects
executeThrows(locators) ==
    LET mocha == createMochaInstance([instances |-> instances, required |-> required])
    IN  /\ instances' = mocha.instances
        /\ required' = mocha.required
        /\ testlocator' = locators
        /\ hooks' = extendNativeRunner(hooks)
        /\ error' = "EngineError"
        /\ pc' = "failed"
        /\ UNCHANGED <<inputs, gi, i, accumulators, passes, executionResults,
                       posted, discovered, stdout, exitCode>>

\* the failing results reported so far
Failures ==
    Cardinality({<<k, j>> \in (1..Len(passes)) \X (1..Cardinality(TestNodes)) :
                    /\ j <= Len(passes[k].testResults)
                    /\ passes[k].testResults[j].status = "Failed"})

\* the outcomes the engine may report: every test passes, or the first one run fails
Outcomes(live) ==
    LET order == RunOrder(live, Root)
    IN  {{}} \cup (IF Len(order) > 0 /\ Failures < MaxFailures THEN {{order[1]}} ELSE {})

\* the engine runs the tests left in the tree and calls the callback of mocha.run,
\* which resolves testRunTask
EngineDone(k) ==
    /\ k \in 1..Len(passes)
    /\ passes[k].state = "running"
    /\ \E failed \in Outcomes(passes[k].live) :
          passes' = [passes EXCEPT
              ![k].state = "signalled",
              ![k].testResults = reporterTestResults(Locators(title), passes[k].live, failed),
              ![k].testSuiteResults = reporterSuiteResults(Locators(title), passes[k].live, failed)]
    /\ UNCHANGED <<inputs, engines, process, pc, gi, i, testlocator, accumulators, hooks,
                   executionResults, posted, discovered>>

\* execute after the await: the ExecutionResult of the pass
assembleResults(p) ==
    LET merged == handleDuplicateTests(p.testResults \o blocklistedTests)
    IN  [testResults |->
            IF Cardinality(testlocator) > 0
            THEN filterTestResultsByTestLocator(merged, testlocator, blockListedLocators)
            ELSE merged,
         testSuiteResults |-> p.testSuiteResults \o blocklistedSuites]

\* execute resumes after await testRunTask.promise, disposes mocha and returns
ExecuteReturn(k) ==
    /\ k \in 1..Len(passes)
    /\ passes[k].state = "signalled"
    /\ passes' = [passes EXCEPT ![k].state = "returned",
                                ![k].ret = assembleResults(passes[k])]
    /\ UNCHANGED <<inputs, engines, process, pc, gi, i, testlocator, accumulators, hooks,
                   executionResults, posted, discovered>>

(***************************************************************************)
(* The entry point: the async function at the end of the file.             *)
(***************************************************************************)
\* the branch on argv.command inside the try block
Main ==
    /\ pc = "main"
    /\ pc' = CASE command = "discover" -> "discover"
               [] command = "execute" -> "start"
               [] OTHER -> "failed"
    /\ error' = CASE command = "" -> "Error: Command not provided."
                  [] command \in {"discover", "execute"} -> error
                  [] OTHER -> "Error: Unknown/Not implemented command"
    /\ UNCHANGED <<inputs, engines, stdout, exitCode, gi, i, testlocator, accumulators,
                   hooks, passes, executionResults, posted, discovered>>

\* mutant: the catch block exits with 0
exitStatus_AlwaysZero(thrown) == 0

\* the argument of process.exit: -1 in the catch block, 0 after it
exitStatus(thrown) == IF thrown THEN 0 - 1 ELSE 0

\* catch (e): console.error(e.stack); process.exit(-1)
MainCatch ==
    /\ pc = "failed"
    /\ exitCode = <<>>
    /\ exitCode' = Append(exitCode, exitStatus(TRUE))
    /\ UNCHANGED <<inputs, engines, error, stdout, pc, gi, i, testlocator, accumulators,
                   hooks, passes, executionResults, posted, discovered>>

\* console.log("done") after the try block
MainLog ==
    /\ pc \in {"done", "discovered"}
    /\ stdout = <<>>
    /\ stdout' = Append(stdout, "done")
    /\ UNCHANGED <<inputs, engines, error, exitCode, pc, gi, i, testlocator, accumulators,
                   hooks, passes, executionResults, posted, discovered>>

\* process.exit(0)
MainExit ==
    /\ pc \in {"done", "discovered"}
    /\ stdout /= <<>>
    /\ exitCode = <<>>
    /\ exitCode' = Append(exitCode, exitStatus(FALSE))
    /\ UNCHANGED <<inputs, engines, error, stdout, pc, gi, i, testlocator, accumulators,
                   hooks, passes, executionResults, posted, discovered>>

(***************************************************************************)
(* executeTests(argv): the coordinator.                                    *)
(***************************************************************************)
\* mutant: executeTests stops waiting for a pass whose engine has not signalled
awaitExecute_TimesOut(p) == p.state \in {"running", "returned"}

\* mutant: the call of execute is not awaited
awaitExecute_NotAwaited(p) == TRUE

\* await this.execute(...): executeTests goes on once the pass has returned
awaitExecute(p) == p.state = "returned"

\* mutant: the loop runs from 1 while i < numberofexecutions
loopCond_OffByOne(k, n) == k < n

\* the condition of for (let i=1; i<=set.numberofexecutions; i++)
loopCond(k, n) == k <= n

\* executeTests up to the branch on argv.locatorFile: Validations.validateExecutionEnv
\* throws on a missing argument or environment value
ExecuteTestsStart ==
    /\ pc = "start"
    /\ LET thrown == validateEnv(envValid)
       IN  /\ pc' = IF thrown /= NoError THEN "failed"
                    ELSE IF locatorFile THEN "loop" ELSE "single"
           /\ error' = IF thrown /= NoError THEN thrown ELSE error
    /\ UNCHANGED <<inputs, engines, stdout, exitCode, gi, i, testlocator, accumulators,
                   hooks, passes, executionResults, posted, discovered>>

\* const result = await this.execute(testFilesGlob, set.locators), up to the await
LoopExecute ==
    /\ pc = "loop"
    /\ gi <= Len(groups)
    /\ loopCond(i, groups[gi].numberofexecutions)
    /\ execute(groups[gi].locators)
    /\ pc' = "await"
    /\ UNCHANGED <<inputs, process, gi, i, executionResults, posted, discovered>>

\* the same call when the engine invocation fails: the rejection leaves both loops
LoopExecuteThrows ==
    /\ pc = "loop"
    /\ gi <= Len(groups)
    /\ loopCond(i, groups[gi].numberofexecutions)
    /\ executeThrows(groups[gi].locators)

\* the inner loop ends: the next group
LoopNextGroup ==
    /\ pc = "loop"
    /\ gi <= Len(groups)
    /\ ~loopCond(i, groups[gi].numberofexecutions)
    /\ gi' = gi + 1
    /\ i' = 1
    /\ UNCHANGED <<inputs, engines, process, pc, testlocator, accumulators, hooks, passes,
                   executionResults, posted, discovered>>

\* the outer loop ends
LoopExit ==
    /\ pc = "loop"
    /\ gi > Len(groups)
    /\ pc' = "publish"
    /\ UNCHANGED <<inputs, engines, process, gi, i, testlocator, accumulators, hooks, passes,
                   executionResults, posted, discovered>>

\* run all tests if locator file is not present
SingleExecute ==
    /\ pc = "single"
    /\ execute({})
    /\ pc' = "awaitSingle"
    /\ UNCHANGED <<inputs, process, gi, i, executionResults, posted, discovered>>

\* the same call when the engine invocation fails
SingleExecuteThrows ==
    /\ pc = "single"
    /\ executeThrows({})

\* executionResults.push(result), and i++ in the loop
PushResult ==
    /\ pc \in {"await", "awaitSingle"}
    /\ awaitExecute(passes[Len(passes)])
    /\ executionResults' = Append(executionResults, passes[Len(passes)].ret)
    /\ pc' = IF pc = "await" THEN "loop" ELSE "publish"
    /\ i' = IF pc = "await" THEN i + 1 ELSE i
    /\ UNCHANGED <<inputs, engines, process, gi, testlocator, accumulators, hooks, passes,
                   posted, discovered>>

\* the values of ENDPOINT_POST_TEST_LIST and ENDPOINT_POST_TEST_RESULTS: unset or a URL
Endpoints == {"", "http://tas/report"}

\* the report is posted when ENDPOINT_POST_TEST_RESULTS is set, and returned; a
\* rejection of Util.makeApiRequestPost is not caught here and leaves executeTests.
\* postTestResultsEndpoint is read from the environment at the top of executeTests
\* and used here for the first time
Publish ==
    /\ pc = "publish"
    /\ \E endpoint \in Endpoints, delivered \in BOOLEAN :
          /\ postEndpoint' = endpoint
          /\ published' = IF endpoint /= "" THEN Append(published, executionResults)
                          ELSE published
          /\ pc' = IF endpoint /= "" /\ ~delivered THEN "failed" ELSE "done"
          /\ error' = IF endpoint /= "" /\ ~delivered THEN "TransportError" ELSE error
    /\ UNCHANGED <<inputs, engines, stdout, exitCode, gi, i, testlocator, accumulators,
                   hooks, passes, executionResults, discovered>>


(***************************************************************************)
(* What a pass did, read off the state.                                    *)
(***************************************************************************)
\* the run set of a pass: the tests left in the tree handed to the engine
RunSet(p) == UNION {Range(p.live[s]) : s \in SuiteNodes \cup {Root}}

\* how often a test is left in the tree
TimesInTree(p, t) ==
    Cardinality(UNION {{<<s, k>> : k \in {j \in 1..Len(p.live[s]) : p.live[s][j] = t}} :
                          s \in SuiteNodes \cup {Root}})

\* the records the filter pushed to _blocklistedTests during the pass
RecordedTests(p) == p.recTests

\* the records the filter pushed to _blocklistedSuites during the pass
RecordedSuites(p) == p.recSuites

\* how many records the filter pushed for a test during the pass
TimesRecorded(p, t) ==
    Cardinality({k \in 1..Len(p.recTests) : p.recTests[k].test = t})

\* how many records the filter pushed for a suite during the pass
TimesSuiteRecorded(p, s) ==
    Cardinality({k \in 1..Len(p.recSuites) : p.recSuites[k].suite = s})

\* a sequence of results holds one of the test
HasRecord(rs, t) == \E k \in 1..Len(rs) : rs[k].test = t

BlockListedSet(p) == {t \in TestNodes : TimesRecorded(p, t) > 0}
ExcludedSet(p) == {t \in TestNodes : TimesInTree(p, t) = 0 /\ TimesRecorded(p, t) = 0}
\* the locators of the nodes of the trees of the execute command
LocatorTable == [ttl \in ExecTitles |-> Locators(ttl)]
Blocked(n) == isBlocklistedLocator(blocklist, LocatorTable[title][n])
Selected(p, t) == LocatorTable[title][t] \in p.locators
PassSet == 1..Len(passes)

\* C1: after the filter has run for a pass every test is in exactly one of the run
\* set (once, in its own suite's list), the blocklisted set (one record pushed in
\* that pass) and the excluded set (dropped, no record)
C1_FilterPartition ==
    \A pk \in PassSet : LET p == passes[pk] IN
        LET run == RunSet(p)
            rec == BlockListedSet(p)
            exc == ExcludedSet(p)
        IN  \A t \in TestNodes :
                /\ TimesInTree(p, t) + TimesRecorded(p, t) <= 1
                /\ (IF t \in run THEN 1 ELSE 0) + (IF t \in rec THEN 1 ELSE 0)
                      + (IF t \in exc THEN 1 ELSE 0) = 1
                /\ t \in run => t \in Range(p.live[Parent(t)])

\* a second pass whose filter ran more than once and kept, recorded and dropped tests
C1_Witness ==
    \E pk \in PassSet, qk \in PassSet : LET p == passes[pk] q == passes[qk] IN
        /\ p.filterRuns > 1 /\ q.filterRuns > 1
        /\ RunSet(p) /= {} /\ ExcludedSet(p) /= {}
        /\ BlockListedSet(q) /= {} /\ ExcludedSet(q) /= {}

\* C2 as claimed: a blocklisted test is recorded as BlockListed in every pass and is
\* never in the run set, whatever the selection
C2_BlocklistAlwaysRecorded ==
    \A pk \in PassSet : LET p == passes[pk] IN \A t \in TestNodes :
        Blocked(t) => TimesRecorded(p, t) = 1 /\ t \notin RunSet(p)

\* C2 amended: a blocklisted test is never in the run set; the filter records it once
\* in a pass whose selection is empty or holds its locator, and drops it without a
\* record in a pass whose non-empty selection does not hold its locator
C2_BlocklistRecordedWhenSelected ==
    \A pk \in PassSet : LET p == passes[pk] IN \A t \in TestNodes :
        Blocked(t) =>
            /\ t \notin RunSet(p)
            /\ (p.locators = {} \/ Selected(p, t)) => TimesRecorded(p, t) = 1
            /\ (p.locators /= {} /\ ~Selected(p, t)) => TimesRecorded(p, t) = 0

\* a blocklisted test recorded in one pass and dropped unrecorded by another
C2_Witness ==
    \E pk \in PassSet, qk \in PassSet : LET p == passes[pk] q == passes[qk] IN \E t \in TestNodes :
        /\ Blocked(t)
        /\ Selected(p, t) /\ TimesRecorded(p, t) = 1
        /\ q.locators /= {} /\ ~Selected(q, t) /\ t \in ExcludedSet(q)

\* C3 as claimed: below a blocklisted suite no test is in the run set, none is
\* recorded individually, and the pass produces exactly one suite-level record
C3_SuiteShortCircuit ==
    \A pk \in PassSet : LET p == passes[pk] IN \A s \in SuiteNodes :
        Blocked(s) =>
            /\ Descendants(s) \cap RunSet(p) = {}
            /\ Descendants(s) \cap BlockListedSet(p) = {}
            /\ TimesSuiteRecorded(p, s) = 1

\* the BlockListed records of a sequence of results
BlockListedOf(rs) == SelectSeq(rs, LAMBDA r : r.status = "BlockListed")

\* C4 as claimed: the blocklisted suite records and blocklisted test records a pass
\* merges into its result are those the filter recorded during that same pass
C4_PassIsolation ==
    \A k \in 1..Len(passes) :
        passes[k].state = "returned" =>
            /\ BlockListedOf(passes[k].ret.testSuiteResults) = RecordedSuites(passes[k])
            /\ \A r \in Range(BlockListedOf(passes[k].ret.testResults)) :
                   TimesRecorded(passes[k], r.test) > 0

RECURSIVE ExpectedPasses(_)
\* the selections of the passes the locator groups ask for, in order
ExpectedPasses(gs) ==
    IF Len(gs) = 0 THEN <<>>
    ELSE [k \in 1..gs[1].numberofexecutions |-> gs[1].locators] \o ExpectedPasses(Tail(gs))

\* C5: with locator groups the passes started are, in order, repeatCount passes per
\* group with that group's locators, the report holds the result of each pass in
\* the same order, and on return it holds one result per pass asked for
C5_PassesPerGroup ==
    locatorFile =>
        LET want == ExpectedPasses(groups)
        IN  /\ Len(passes) <= Len(want)
            /\ \A k \in 1..Len(passes) : passes[k].locators = want[k]
            /\ Len(executionResults) <= Len(passes)
            /\ \A k \in 1..Len(executionResults) :
                   /\ passes[k].state = "returned"
                   /\ executionResults[k] = passes[k].ret
            /\ pc \in {"publish", "done"} =>
                   Len(passes) = Len(want) /\ Len(executionResults) = Len(want)
            /\ \A k \in 1..Len(published) : published[k] = executionResults

\* groups (A,2),(B,1) have run to the end: three results A, A, B
C5_Witness ==
    /\ locatorFile /\ pc = "done"
    /\ Len(groups) = 2
    /\ groups[1].numberofexecutions = 2 /\ groups[2].numberofexecutions = 1
    /\ groups[1].locators /= groups[2].locators
    /\ groups[1].locators /= {} /\ groups[2].locators /= {}
    /\ Len(executionResults) = 3
    /\ executionResults[1] /= executionResults[3]

\* C6: without a locator file there is exactly one pass, its selection is empty,
\* every test that is not blocklisted is in the run set and every blocklisted test
\* is recorded (none is excluded)
C6_RunEverything ==
    ~locatorFile =>
        /\ Len(passes) <= 1
        /\ pc \in {"awaitSingle", "publish", "done"} => Len(passes) = 1
        /\ pc \in {"publish", "done"} => Len(executionResults) = 1
        /\ \A pk \in PassSet : LET p == passes[pk] IN
              /\ p.locators = {}
              /\ ExcludedSet(p) = {}
              /\ \A t \in TestNodes :
                    IF Blocked(t)
                    THEN TimesRecorded(p, t) = 1 /\ t \notin RunSet(p)
                    ELSE TimesRecorded(p, t) = 0 /\ TimesInTree(p, t) = 1

\* the single pass of a run without locator file, with a blocklisted test, is done
C6_Witness ==
    /\ ~locatorFile /\ pc = "done"
    /\ Len(executionResults) = 1
    /\ \E t \in TestNodes : Blocked(t) /\ t \in BlockListedSet(passes[1])
    /\ RunSet(passes[1]) /= {}

\* C7: under a non-empty selection a test that is not blocklisted is in the run set
\* iff its locator is selected; otherwise it is out of the tree and has no record
\* in an accumulator, in the engine's results or in the pass result
C7_SelectionDecides ==
    \A pk \in PassSet : LET p == passes[pk] IN \A t \in TestNodes :
        (p.locators /= {} /\ ~Blocked(t)) =>
            /\ t \in RunSet(p) <=> Selected(p, t)
            /\ ~Selected(p, t) =>
                  /\ TimesInTree(p, t) = 0
                  /\ ~HasRecord(blocklistedTests, t)
                  /\ LocatorTable[title][t] \notin blockListedLocators
                  /\ ~HasRecord(p.testResults, t)
                  /\ ~HasRecord(p.ret.testResults, t)

\* a returned pass with a selected test run and another, not blocklisted, excluded
C7_Witness ==
    \E pk \in PassSet : LET p == passes[pk] IN \E t \in TestNodes, u \in TestNodes :
        /\ p.state = "returned" /\ p.locators /= {}
        /\ ~Blocked(t) /\ Selected(p, t) /\ t \in RunSet(p)
        /\ HasRecord(p.ret.testResults, t)
        /\ ~Blocked(u) /\ ~Selected(p, u) /\ u \in ExcludedSet(p)

\* the passes whose engine exists: execute was entered and has not returned
ActivePasses == {k \in 1..Len(passes) : passes[k].state \in {"running", "signalled"}}

\* C10: at most one pass is active, the selection installed is that of the active
\* pass, and a pass is started only after every earlier pass has returned its
\* result and the result has been pushed to the report
C10_PassesSequential ==
    /\ Cardinality(ActivePasses) <= 1
    /\ \A k \in ActivePasses : testlocator = passes[k].locators
    /\ \A k \in 1..Len(passes) - 1 :
          /\ passes[k].state = "returned"
          /\ k <= Len(executionResults)
          /\ executionResults[k] = passes[k].ret

\* a second pass is running
C10_Witness ==
    /\ Len(passes) >= 2
    /\ passes[2].state = "running"
    /\ Len(executionResults) = 1

(***************************************************************************)
(* Failures of the engine and of the process.                              *)
(***************************************************************************)
\* a call of execute built its engine instance and did not enter the runner: the
\* engine invocation of that pass failed
EngineFailed == command = "execute" /\ instances > Len(passes)

\* C11: once the engine invocation of a pass has failed, executeTests is left with
\* the failure: no pass is started and no report is published from then on, the
\* completion marker is not printed and the process exits with a nonzero code only
C11_EngineFailureAborts ==
    /\ [](EngineFailed =>
            /\ pc = "failed" /\ error = "EngineError"
            /\ published = <<>> /\ stdout = <<>>
            /\ \A k \in 1..Len(exitCode) : exitCode[k] /= 0)
    /\ [][EngineFailed =>
            /\ passes' = passes /\ instances' = instances
            /\ published' = published /\ executionResults' = executionResults]_vars

\* the engine of the second pass of the first of two groups failed, and the
\* process has exited
C11_Witness ==
    /\ EngineFailed
    /\ Len(passes) = 1 /\ Len(groups) = 2 /\ gi = 1
    /\ groups[1].numberofexecutions = 2
    /\ exitCode = <<0 - 1>>

\* the requested command returned to the entry function without an exception
Completed ==
    /\ error = NoError
    /\ \/ command = "execute" /\ pc = "done"
       \/ command = "discover" /\ pc = "discovered"

\* C12: the process exits once; it exits with 0 exactly when the requested command
\* completed without an exception, and then "done" was printed before the exit;
\* "done" is printed only after the command completed; with a missing or unknown
\* command nothing is built, loaded, walked, run or published, "done" is never
\* printed and the exit code is not 0
C12_ExitCodes ==
    /\ Len(exitCode) <= 1
    /\ \A k \in 1..Len(exitCode) :
          /\ exitCode[k] = 0 <=> Completed
          /\ exitCode[k] = 0 => stdout = <<"done">>
          /\ exitCode[k] /= 0 => stdout = <<>>
    /\ stdout /= <<>> => Completed
    /\ command \notin {"discover", "execute"} =>
          /\ instances = 0 /\ required = <<>> /\ passes = <<>> /\ hooks = 0
          /\ tests = <<>> /\ testSuites = <<>>
          /\ executionResults = <<>> /\ published = <<>>
          /\ stdout = <<>>
          /\ \A k \in 1..Len(exitCode) : exitCode[k] /= 0

\* an unknown command has ended the process
C12_Witness ==
    /\ command = "report"
    /\ error = "Error: Unknown/Not implemented command"
    /\ exitCode = <<0 - 1>>

\* the number of passes the invocation asks for
PassesAsked == IF locatorFile THEN Len(ExpectedPasses(groups)) ELSE 1

\* C13 as claimed: an invocation hands at most one result to the transport, only
\* with an endpoint configured and only after every pass has returned (execute) or
\* the whole tree has been walked (discover); when the transport fails, the
\* exception that leaves the command is the runner error wrapping the failure
C13_PublishOnceWrapped ==
    /\ Len(published) <= 1
    /\ published /= <<>> =>
          /\ postEndpoint /= ""
          /\ command = "execute" =>
                /\ Len(passes) = PassesAsked
                /\ \A k \in 1..Len(passes) : passes[k].state = "returned"
                /\ Len(executionResults) = PassesAsked
                /\ published[1] = executionResults
          /\ command = "discover" =>
                /\ Len(testSuites) = Cardinality(SuiteNodes)
                /\ published[1] = [tests |-> tests, testSuites |-> testSuites]
          /\ pc = "failed" => error = "RunnerException"

\* C16 as claimed: when the arguments or the environment of discover or execute
\* are not valid, the command is left before any work: no engine instance is
\* built, no file of the user is required or loaded, nothing is walked and no pass
\* starts
C16_UsageErrorBeforeWork ==
    (command \in {"discover", "execute"} /\ validateEnv(envValid) /= NoError) =>
        /\ instances = 0
        /\ required = <<>>
        /\ hooks = 0 /\ passes = <<>>
        /\ tests = <<>> /\ testSuites = <<>>
        /\ published = <<>>

\* C17 as claimed: in every pass the filter walks the root suite of the engine
\* exactly once before the engine runs, whatever the number of earlier passes
C17_FilterOncePerPass ==
    \A k \in 1..Len(passes) : passes[k].filterRuns = 1

(***************************************************************************)
(* The execute command under fair scheduling: a continuation of the entry  *)
(* function, of executeTests or of execute that can run is run by the      *)
(* event loop; nothing makes the engine call the callback of mocha.run.    *)
(***************************************************************************)
InitLive == Init /\ command = "execute"

\* the steps of the entry function, executeTests and execute
Coordinator ==
    \/ Main
    \/ ExecuteTestsStart
    \/ LoopExecuteThrows
    \/ LoopExecute
    \/ LoopNextGroup
    \/ LoopExit
    \/ SingleExecuteThrows
    \/ SingleExecute
    \/ \E k \in 1..MaxPasses + 1 : ExecuteReturn(k)
    \/ PushResult
    \/ Publish
    \/ MainCatch
    \/ MainLog
    \/ MainExit

NextLive ==
    \/ Coordinator
    \/ \E k \in 1..MaxPasses + 1 : EngineDone(k)

SpecLive == InitLive /\ [][NextLive]_vars /\ WF_vars(Coordinator)

\* the passes whose engine has been started and has not signalled completion
Running == {k \in 1..Len(passes) : passes[k].state = "running"}

\* executeTests has returned a report that holds the result of every pass asked for
ReturnedAllPasses ==
    /\ pc = "done"
    /\ Len(executionResults) = PassesAsked
    /\ \A k \in 1..PassesAsked : executionResults[k] = passes[k].ret

\* C18: when no engine stays running for ever and nothing throws, executeTests
\* eventually returns the report of all passes; while the engine of a pass has not
\* signalled, the only step taken is that signal: executeTests does not time out,
\* starts no pass, pushes no result and publishes nothing
C18_BlocksUntilSignalled ==
    /\ ([]<>(Running = {}) /\ [](pc /= "failed")) => <>ReturnedAllPasses
    /\ [][Running /= {} =>
            /\ \E k \in Running : passes'[k].state = "signalled"
            /\ Len(passes') = Len(passes)
            /\ UNCHANGED <<pc, gi, i, executionResults, posted, process>>]_vars

\* executeTests returned the report of three passes and the process has exited
C18_Witness ==
    /\ ReturnedAllPasses
    /\ PassesAsked = 3
    /\ exitCode = <<0>>

(***************************************************************************)
(* discoverTests(argv): the identifier scheme and the discovery walk.      *)
(***************************************************************************)
\* Util.getIdentifier(filename, name): the name qualified by the file
getIdentifier(filename, name) == name \o " (" \o filename \o ")"

\* crypto.createHash("md5").update(s).digest("hex"), the digest taken as injective
md5(s) == "md5:" \o s

\* the null of parentId and suiteId
Null == "null"

\* ancestorTitles.map((suiteName) => Util.getIdentifier(filename, suiteName))
qualify(filename, ancestorTitles) ==
    [k \in 1..Len(ancestorTitles) |-> getIdentifier(filename, ancestorTitles[k])]

\* the string hashed for a suite, and for the suiteId and parentId links
suiteHashInput(suiteIdentifiers) == repoID \o "\n" \o Join(suiteIdentifiers, "\n")

\* the string hashed for a test
testHashInput(suiteIdentifiers, testIdentifier) ==
    repoID \o "\n" \o Join(suiteIdentifiers, "\n") \o "\n" \o testIdentifier

\* the body of the loop over currentSuite.tests; out holds tests, testSuites and
\* the shared ancestorTitles array
listTest(ttl, out, mochaTest) ==
    LET filename == FileOf(mochaTest)
        testIdentifier == getIdentifier(filename, ttl[mochaTest])
        suiteIdentifiers == qualify(filename, out.ancestorTitles)
        test == [id |-> md5(testHashInput(suiteIdentifiers, testIdentifier)),
                 name |-> testIdentifier,
                 title |-> ttl[mochaTest],
                 suiteId |-> IF Len(suiteIdentifiers) > 0
                             THEN md5(suiteHashInput(suiteIdentifiers)) ELSE Null,
                 locator |-> getLocator(filename, out.ancestorTitles, ttl[mochaTest]),
                 node |-> mochaTest,
                 chain |-> Append(suiteIdentifiers, testIdentifier),
                 ord |-> Len(out.tests) + Len(out.testSuites) + 1]
    IN  [out EXCEPT !.tests = Append(@, test)]

RECURSIVE listTests(_, _, _)
\* for (const mochaTest of currentSuite.tests)
listTests(ttl, out, ts) ==
    IF Len(ts) = 0 THEN out
    ELSE listTests(ttl, listTest(ttl, out, Head(ts)), Tail(ts))

\* a child suite is entered: its title is pushed and its TestSuite is emitted
enterSuite(ttl, out, childSuite) ==
    LET filename == FileOf(childSuite)
        pushed == Append(out.ancestorTitles, ttl[childSuite])
        suiteIdentifier == getIdentifier(filename, ttl[childSuite])
        suiteIdentifiers == qualify(filename, pushed)
        parentSuiteIdentifiers == SubSeq(suiteIdentifiers, 1, Len(suiteIdentifiers) - 1)
        testSuite == [id |-> md5(suiteHashInput(suiteIdentifiers)),
                      name |-> suiteIdentifier,
                      parentId |-> IF Len(parentSuiteIdentifiers) > 0
                                   THEN md5(suiteHashInput(parentSuiteIdentifiers))
                                   ELSE Null,
                      node |-> childSuite,
                      chain |-> suiteIdentifiers,
                      ord |-> Len(out.tests) + Len(out.testSuites) + 1]
    IN  [out EXCEPT !.ancestorTitles = pushed,
                    !.testSuites = Append(@, testSuite)]

\* mutant: the title of the child suite is not popped after its subtree
leaveSuite_NoPop(out) == out

\* ancestorTitles.pop()
leaveSuite(out) ==
    [out EXCEPT !.ancestorTitles = SubSeq(@, 1, Len(@) - 1)]

RECURSIVE listTestsAndTestSuites(_, _, _)
RECURSIVE listChildSuites(_, _, _)
\* for (const childSuite of currentSuite.suites)
listChildSuites(ttl, out, cs) ==
    IF Len(cs) = 0 THEN out
    ELSE listChildSuites(ttl,
            leaveSuite(listTestsAndTestSuites(ttl, enterSuite(ttl, out, Head(cs)), Head(cs))),
            Tail(cs))

\* MochaRunner.listTestsAndTestSuites(currentSuite, tests, testSuites, ancestorTitles)
listTestsAndTestSuites(ttl, out, currentSuite) ==
    listTests(ttl, listChildSuites(ttl, out, ChildSuites(currentSuite)),
              LoadedTests(currentSuite))

\* the trees of the discover command: suites that repeat a title, a title with a
\* line feed in it, tests named like suites
DiscTitles ==
    {[n \in Nodes |->
        CASE n = "S1" -> s1 [] n = "S2" -> s2 [] n = "S3" -> s3
          [] n = "t0" -> "x" [] n = "t1" -> t1 [] n = "t2" -> "z"
          [] OTHER -> t3] :
     s1 \in {"A", "B"}, s2 \in {"A", "B"}, s3 \in {"A", "C", "A (f.js)\nB"},
     t1 \in {"y", "B"}, t3 \in {"y", "z"}}

InitDiscover ==
    /\ title \in DiscTitles
    /\ command = "discover"
    /\ envValid \in BOOLEAN
    /\ locatorFile = FALSE
    /\ groups = <<>>
    /\ blocklist = {}
    /\ FreshProcess
    /\ pc = "main"
    /\ gi = 1
    /\ i = 1
    /\ testlocator = {}
    /\ blocklistedTests = <<>>
    /\ blockListedLocators = {}
    /\ blocklistedSuites = <<>>
    /\ hooks = 0
    /\ passes = <<>>
    /\ executionResults = <<>>
    /\ published = <<>>
    /\ postEndpoint = ""
    /\ tests = <<>>
    /\ testSuites = <<>>

\* const mocha = this.createMochaInstance(), the first statement of discoverTests
DiscoverCreateMocha ==
    /\ pc = "discover"
    /\ LET mocha == createMochaInstance([instances |-> instances, required |-> required])
       IN  /\ instances' = mocha.instances
           /\ required' = mocha.required
    /\ pc' = "validate"
    /\ UNCHANGED <<inputs, process, gi, i, testlocator, accumulators, hooks, passes,
                   executionResults, posted, discovered>>

\* Validations.validateDiscoveryEnv(argv) throws on a missing argument or
\* environment value
DiscoverValidate ==
    /\ pc = "validate"
    /\ LET thrown == validateEnv(envValid)
       IN  /\ pc' = IF thrown /= NoError THEN "failed" ELSE "load"
           /\ error' = IF thrown /= NoError THEN thrown ELSE error
    /\ UNCHANGED <<inputs, engines, stdout, exitCode, gi, i, testlocator, accumulators,
                   hooks, passes, executionResults, posted, discovered>>

\* the files are added and loaded: mocha.loadFilesAsync(), and mocha.loadFiles()
\* when that rejects; discoverTests throws when the second load throws too
DiscoverLoad ==
    /\ pc = "load"
    /\ \E async \in BOOLEAN, legacy \in BOOLEAN :
          /\ pc' = IF async \/ legacy THEN "loaded" ELSE "failed"
          /\ error' = IF async \/ legacy THEN error ELSE "LoadError"
    /\ UNCHANGED <<inputs, engines, stdout, exitCode, gi, i, testlocator, accumulators,
                   hooks, passes, executionResults, posted, discovered>>

\* the number of nodes the walk emits
WalkLength == Cardinality(SuiteNodes) + Cardinality(TestNodes)

\* the records of rs emitted before the walk was cut after n nodes
EmittedUpTo(rs, n) == SelectSeq(rs, LAMBDA r : r.ord <= n)

\* mutant: an exception of the walk is swallowed and discoverTests goes on with the
\* arrays as they are
Discover_SwallowsWalkError ==
    /\ pc = "loaded"
    /\ LET out == listTestsAndTestSuites(title,
                      [tests |-> <<>>, testSuites |-> <<>>, ancestorTitles |-> <<>>],
                      Root)
       IN  \E n \in 0..WalkLength :
              /\ tests' = IF n = WalkLength THEN handleDuplicateTests(out.tests)
                          ELSE EmittedUpTo(out.tests, n)
              /\ testSuites' = EmittedUpTo(out.testSuites, n)
    /\ pc' = "walked"
    /\ UNCHANGED <<inputs, engines, process, gi, i, testlocator, accumulators,
                   hooks, passes, executionResults, posted>>

\* discoverTests up to the DiscoveryResult: the root suite is walked and
\* Util.handleDuplicateTests is applied to the tests; a walk that raises after n
\* nodes leaves the two arrays partly filled and leaves discoverTests
Discover ==
    /\ pc = "loaded"
    /\ LET out == listTestsAndTestSuites(title,
                      [tests |-> <<>>, testSuites |-> <<>>, ancestorTitles |-> <<>>],
                      Root)
       IN  \E n \in 0..WalkLength :
              /\ tests' = IF n = WalkLength THEN handleDuplicateTests(out.tests)
                          ELSE EmittedUpTo(out.tests, n)
              /\ testSuites' = EmittedUpTo(out.testSuites, n)
              /\ pc' = IF n = WalkLength THEN "walked" ELSE "failed"
              /\ error' = IF n = WalkLength THEN error ELSE "WalkError"
    /\ UNCHANGED <<inputs, engines, stdout, exitCode, gi, i, testlocator, accumulators,
                   hooks, passes, executionResults, posted>>

\* catch (err) { throw new RunnerException(err.stack) }
wrapPostError(err) == "RunnerException"

\* the result is posted when ENDPOINT_POST_TEST_LIST is set, and returned;
\* postTestListEndpoint is read from the environment before the walk and used here
\* for the first time
PublishDiscovery ==
    /\ pc = "walked"
    /\ \E endpoint \in Endpoints, delivered \in BOOLEAN :
          /\ postEndpoint' = endpoint
          /\ published' = IF endpoint /= ""
                          THEN Append(published, [tests |-> tests, testSuites |-> testSuites])
                          ELSE published
          /\ pc' = IF endpoint /= "" /\ ~delivered THEN "failed" ELSE "discovered"
          /\ error' = IF endpoint /= "" /\ ~delivered THEN wrapPostError("TransportError")
                      ELSE error
    /\ UNCHANGED <<inputs, engines, stdout, exitCode, gi, i, testlocator, accumulators,
                   hooks, passes, executionResults, discovered>>

NextDiscover ==
    \/ Main
    \/ DiscoverCreateMocha
    \/ DiscoverValidate
    \/ DiscoverLoad
    \/ Discover
    \/ PublishDiscovery
    \/ MainCatch
    \/ MainLog
    \/ MainExit

SpecDiscover == InitDiscover /\ [][NextDiscover]_vars

Next ==
    \/ Main
    \/ ExecuteTestsStart
    \/ LoopExecute
    \/ LoopExecuteThrows
    \/ LoopNextGroup
    \/ LoopExit
    \/ SingleExecute
    \/ SingleExecuteThrows
    \/ \E k \in 1..MaxPasses + 1 : EngineDone(k)
    \/ \E k \in 1..MaxPasses + 1 : ExecuteReturn(k)
    \/ PushResult
    \/ Publish
    \/ DiscoverCreateMocha
    \/ DiscoverValidate
    \/ DiscoverLoad
    \/ Discover
    \/ PublishDiscovery
    \/ MainCatch
    \/ MainLog
    \/ MainExit

Spec == Init /\ [][Next]_vars

\* what a walk of the whole tree emits
FullWalk ==
    listTestsAndTestSuites(title,
        [tests |-> <<>>, testSuites |-> <<>>, ancestorTitles |-> <<>>], Root)

\* the two arrays hold the result of a whole walk
WalkComplete ==
    /\ testSuites = FullWalk.testSuites
    /\ tests = handleDuplicateTests(FullWalk.tests)

\* C14: a discovery result is handed to the transport, and returned, only with
\* the result of a whole walk in it; once the validation, the file load (on both
\* paths) or the walk has failed, nothing is published and discoverTests does not
\* return
C14_NoPartialDiscovery ==
    /\ published /= <<>> =>
          /\ WalkComplete
          /\ published = <<[tests |-> tests, testSuites |-> testSuites]>>
    /\ pc = "discovered" => WalkComplete /\ error = NoError
    /\ error \in {"ValidationError", "LoadError", "WalkError"} =>
          /\ published = <<>>
          /\ pc = "failed"
          /\ stdout = <<>>
    /\ ~WalkComplete => pc \notin {"walked", "discovered"}

\* the walk raised after some suites were emitted, and the process has exited
C14_Witness ==
    /\ error = "WalkError"
    /\ testSuites /= <<>> /\ ~WalkComplete
    /\ published = <<>>
    /\ exitCode = <<0 - 1>>

RECURSIVE PreOrder(_)
\* the suites below the given child suites in depth-first pre-order
PreOrder(cs) ==
    IF Len(cs) = 0 THEN <<>>
    ELSE <<Head(cs)>> \o PreOrder(ChildSuites(Head(cs))) \o PreOrder(Tail(cs))

\* C15: the suites are emitted in depth-first pre-order; the parentId of an emitted
\* suite is null exactly when the suite is a child of the root suite, and otherwise
\* is the id of its enclosing suite, which stands earlier in the same output
C15_ParentIdLinksEnclosingSuite ==
    /\ \A j \in 1..Len(testSuites) : testSuites[j].node = PreOrder(ChildSuites(Root))[j]
    /\ \A j \in 1..Len(testSuites) :
          LET ts == testSuites[j]
          IN  /\ ts.parentId = Null <=> Parent(ts.node) = Root
              /\ ts.parentId /= Null =>
                    \E k \in 1..(j - 1) :
                        /\ testSuites[k].node = Parent(ts.node)
                        /\ testSuites[k].id = ts.parentId

\* a whole walk: a nested suite linked to the first suite, and after that subtree
\* a child of the root with no parent
C15_Witness ==
    /\ pc = "discovered"
    /\ Len(testSuites) = 3
    /\ testSuites[2].parentId = testSuites[1].id
    /\ testSuites[3].parentId = Null
    /\ testSuites[1].name /= testSuites[2].name

\* C8 as claimed: a test's suiteId is null exactly when the test is directly under
\* the root suite, and otherwise is the id of exactly one emitted TestSuiteNode,
\* which is the test's enclosing suite and was emitted before the test
C8_SuiteIdResolvesToOneSuite ==
    pc \in {"walked", "discovered"} =>
        \A k \in 1..Len(tests) :
            LET t == tests[k]
                hits == {j \in 1..Len(testSuites) : testSuites[j].id = t.suiteId}
            IN  /\ t.suiteId = Null <=> Parent(t.node) = Root
                /\ t.suiteId /= Null =>
                      /\ Cardinality(hits) = 1
                      /\ \A j \in hits :
                            /\ testSuites[j].node = Parent(t.node)
                            /\ testSuites[j].ord < t.ord

\* the suites and tests emitted by the walk
Emitted == Range(testSuites) \cup Range(tests)

\* C9 as claimed: two emitted nodes whose chains of qualifying names differ have
\* different identifiers
C9_DifferentChainsDifferentIds ==
    \A a \in Emitted, b \in Emitted : a.chain /= b.chain => a.id /= b.id


====
